---- MODULE Spec2Model ----
(***************************************************************************)
(* Model of be/src/transport/TSaslServerTransport.cpp: the server side of  *)
(* the SASL negotiation (handleSaslStartMessage, setSaslServer) and the    *)
(* transport factory with its session cache (Factory::getTransport).       *)
(*                                                                         *)
(* TSaslTransport (open, receiveSaslMessage, sendSaslMessage) and the      *)
(* class declarations live in files outside this translation unit; the     *)
(* parts of them the model needs follow the design document (wire codec,   *)
(* challenge/response loop).                                               *)
(***************************************************************************)
EXTENDS Integers, Sequences, FiniteSets, TLC

\* ------------------------------------------------------------------ bounds
MaxSessions == 2   \* sessions the factory constructs in one behaviour
MaxPayload  == 2   \* bytes in the payload of the first frame
MaxOverRead == 1   \* non-NUL bytes found behind the receive buffer
MaxRounds   == 1   \* challenges an engine issues in the loop

\* ------------------------------------------------------------- value sets
Threads    == {"th1", "th2"}
Transports == {"tA", "tB"}
Bytes      == 0..2
Statuses   == {"START", "OK", "BAD", "ERROR", "COMPLETE"}

BytesUpTo(n) == UNION {[1..k -> Bytes] : k \in 0..n}
Payloads  == BytesUpTo(MaxPayload)
OverRead  == {b \in BytesUpTo(MaxOverRead) : \A i \in 1..Len(b) : b[i] # 0}

\* Frames a peer can put on the wire as the first frame of a connection.
Frames == [status : Statuses, payload : Payloads]
\* Frames of the challenge/response loop: their payload is opaque to this
\* layer (it only goes to the engine), so one payload stands for all.
LoopFrames == [status : Statuses, payload : {<<>>}]
\* The first frames and loop frames used where only the fate of the handshake
\* matters: a START naming a registered mechanism, and a frame out of order.
PlainFrames == {[status |-> "START", payload |-> <<1>>],
                [status |-> "OK", payload |-> <<>>]}
PlainLoopFrames == {[status |-> "OK", payload |-> <<>>]}

\* A std::string built from a char*: the bytes before the first NUL.
RECURSIVE CStr(_)
CStr(b) == IF b = <<>> \/ Head(b) = 0 THEN <<>> ELSE <<Head(b)>> \o CStr(Tail(b))

\* The mechanism definitions registered with the factory at setup.
EmptyMap == [n \in {} |-> "end"]
FactoryDefinitions == (<<1>> :> "defP") @@ (<<2, 1>> :> "defG")
\* The single definition the (mechanism, protocol, ...) constructor registers.
SingleDefinition == (<<1>> :> "defP")

\* map::find : the definition registered under key, or end().
Find(map, key) == IF key \in DOMAIN map THEN map[key] ELSE "end"

\* ---------------------------------------------------------------- engines
NoEngine == [def |-> "none", complete |-> FALSE, origin |-> "none",
             evals |-> 0, first |-> <<>>]
\* new TSaslServer(serverDefinition->...): an engine bound to a definition.
NewServer(d) == [def |-> d, complete |-> FALSE, origin |-> "start",
                 evals |-> 0, first |-> <<>>]
\* An engine handed in by a caller of setSaslServer.
GivenEngines == {[def |-> "given", complete |-> FALSE, origin |-> "set",
                  evals |-> 0, first |-> <<>>]}

\* ----------------------------------------------------------------- frames
In(f)  == [dir |-> "in", status |-> f.status, payload |-> f.payload,
           text |-> "", tag |-> ""]
Out(status, text, tag, payload) ==
          [dir |-> "out", status |-> status, payload |-> payload,
           text |-> text, tag |-> tag]

VARIABLES
  sessions,             \* the TSaslServerTransport objects constructed so far
  transportMap_,        \* Factory::transportMap_
  transportMap_mutex_,  \* Factory::transportMap_mutex_ : its holder, or "free"
  pc, arg, cur,         \* per thread: position in getTransport, trans, retTransport
  returned,             \* results of completed getTransport calls: [trans, sess]
  closed                \* underlying transports that have been closed

vars == <<sessions, transportMap_, transportMap_mutex_, pc, arg, cur, returned, closed>>

Ids == DOMAIN sessions
NextId == Cardinality(Ids) + 1

\* The state of an object right after one of the constructors has run.
Construct(trans, serverMap, viaFactory) ==
  [trans |-> trans,
   serverDefinitionMap_ |-> serverMap,
   sasl_ |-> NoEngine,
   isClient_ |-> FALSE,
   state |-> IF viaFactory THEN "INIT" ELSE "NEW",
   viaFactory |-> viaFactory,
   resolved |-> "none",
   lookups |-> 0,
   opens |-> IF viaFactory THEN 1 ELSE 0,
   rounds |-> 0,
   err |-> "none",
   raised |-> "none",
   io |-> <<>>]

\* map::insert(first, last): entries of src are added unless the key exists.
MapInsert(dst, src) ==
  [n \in DOMAIN dst \cup DOMAIN src |-> IF n \in DOMAIN dst THEN dst[n] ELSE src[n]]

\* TSaslServerTransport(serverMap, transport)
ServerMapCtor(serverMap, trans, viaFactory) ==
  Construct(trans, MapInsert(EmptyMap, serverMap), viaFactory)

\* ------------------------------------------------- handleSaslStartMessage
\* A handler that throws on a wrong status without telling the peer.
WrongStatus_silent(rcv, f) ==
  [rcv EXCEPT !.state = "FAILED", !.err = "UNKNOWN"]

\* status != TSASL_START: send ERROR with the diagnostic, throw.
WrongStatus(rcv, f) ==
  [rcv EXCEPT !.io = Append(@, Out("ERROR", "Expecting START status, received ",
                                   f.status, <<>>)),
              !.state = "FAILED",
              !.err = "UNKNOWN"]

\* defn == end(): send BAD with the diagnostic, throw BAD_ARGS.
Unsupported(looked, message) ==
  [looked EXCEPT !.io = Append(@, Out("BAD", "Unsupported mechanism type ",
                                      "", message)),
                 !.state = "FAILED",
                 !.err = "BAD_ARGS"]

\* The bytes line 97 hands to the engine: message, resLength, that is the
\* whole payload of the frame just received, the mechanism name included.
EvaluatedBytes(looked) == looked.io[Len(looked.io)].payload

\* sasl_->evaluateChallengeOrResponse(message, resLength, &resLength): the
\* engine has been called once more and remembers its first input.
Evaluate(engine, bytes) ==
  [engine EXCEPT !.evals = @ + 1,
                 !.first = IF engine.evals = 0 THEN bytes ELSE @]

\* sasl_.reset(new TSaslServer(...)); sasl_->evaluateChallengeOrResponse(...).
\* The value the evaluation returns is dropped; an engine that rejects the
\* input throws, and nothing in this function catches it.
Resolved(looked, defn, outcome) ==
  LET inst == [looked EXCEPT !.resolved = defn,
                             !.sasl_ = Evaluate(NewServer(defn), EvaluatedBytes(looked))]
  IN  CASE outcome = "fail" ->
             [inst EXCEPT !.state = "FAILED", !.err = "SaslException"]
        [] outcome = "done" ->
             [inst EXCEPT !.state = "MECH_BOUND", !.sasl_.complete = TRUE]
        [] OTHER ->
             [inst EXCEPT !.state = "MECH_BOUND"]

\* The key line 82 looks up: message is read as a C string although the
\* buffer holds exactly resLength bytes, so the read runs into the bytes
\* behind the buffer (over) until it meets a NUL.
MessageKey(payload, over) == CStr(payload \o over)

StartOutcomes == {"challenge", "done", "fail"}

handleSaslStartMessage(sess, f, over, outcome) ==
  LET rcv == [sess EXCEPT !.io = Append(@, In(f))]
  IN  IF f.status # "START"
        THEN WrongStatus(rcv, f)
        ELSE LET message == MessageKey(f.payload, over)
                 defn    == Find(sess.serverDefinitionMap_, message)
                 looked  == [rcv EXCEPT !.lookups = @ + 1]
             IN  IF defn = "end"
                   THEN Unsupported(looked, message)
                   ELSE Resolved(looked, defn, outcome)

\* receiveSaslMessage on a transport that has been closed.
ReceiveClosed(sess) == [sess EXCEPT !.state = "FAILED", !.err = "END_OF_FILE"]

\* ---------------------------------------------------------- setSaslServer
\* A setter that resets the engine whatever the role.
setSaslServer_unchecked(sess, saslServer) == [sess EXCEPT !.sasl_ = saslServer]

\* if (isClient_) throw TTransportException(INTERNAL_ERROR, ...);
\* sasl_.reset(saslServer); raised is what the call threw to its caller.
setSaslServer(sess, saslServer) ==
  IF sess.isClient_
    THEN [sess EXCEPT !.raised = "INTERNAL_ERROR"]
    ELSE [sess EXCEPT !.sasl_ = saslServer]

\* ------------------------------------------- the loop of TSaslTransport::open
LoopOutcomes == {"challenge", "done", "doneFinal", "fail"}

Negotiate(sess, f, outcome) ==
  LET rcv == [sess EXCEPT !.io = Append(@, In(f))]
      evl == [rcv EXCEPT !.sasl_ = Evaluate(@, f.payload)]
  IN  IF f.status # "OK"
        THEN [rcv EXCEPT !.io = Append(@, Out("ERROR", "Unexpected status ",
                                              f.status, <<>>)),
                         !.state = "FAILED", !.err = "ProtocolViolation"]
        ELSE CASE outcome = "challenge" ->
                    [evl EXCEPT !.io = Append(@, Out("OK", "", "", <<>>)),
                                !.rounds = @ + 1]
               [] outcome = "done" ->
                    [evl EXCEPT !.sasl_.complete = TRUE, !.state = "COMPLETE"]
               [] outcome = "doneFinal" ->
                    [evl EXCEPT !.io = Append(@, Out("COMPLETE", "", "", <<>>)),
                                !.sasl_.complete = TRUE, !.state = "COMPLETE"]
               [] OTHER ->
                    [evl EXCEPT !.io = Append(@, Out("BAD", "Authentication failed",
                                                     "", <<>>)),
                                !.state = "FAILED", !.err = "AuthenticationFailed"]

\* ================================================================ actions
Budget == Cardinality(Ids) + Cardinality({th \in Threads : pc[th] \in {"lock", "find"}})

\* transMap != transportMap_.end()
Found(t) == t \in DOMAIN transportMap_

\* A thread enters Factory::getTransport(trans).
Call(th, t) ==
  /\ pc[th] = "idle"
  /\ Budget < MaxSessions \/ Found(t)
  /\ pc' = [pc EXCEPT ![th] = "lock"]
  /\ arg' = [arg EXCEPT ![th] = t]
  /\ cur' = [cur EXCEPT ![th] = 0]
  /\ UNCHANGED <<sessions, transportMap_, transportMap_mutex_, returned, closed>>

\* A mutex that lets every caller in.
CanLock_open(th) == TRUE

\* boost::mutex::lock succeeds only on a mutex nobody holds.
CanLock(th) == transportMap_mutex_ = "free"

\* boost::lock_guard<boost::mutex> l(transportMap_mutex_)
Lock(th) ==
  /\ pc[th] = "lock"
  /\ CanLock(th)
  /\ transportMap_mutex_' = th
  /\ pc' = [pc EXCEPT ![th] = "find"]
  /\ UNCHANGED <<sessions, transportMap_, arg, cur, returned, closed>>

\* transportMap_.find(trans); a miss constructs the session and enters open().
Lookup(th) ==
  /\ pc[th] = "find"
  /\ IF Found(arg[th])
       THEN /\ cur' = [cur EXCEPT ![th] = transportMap_[arg[th]]]
            /\ pc' = [pc EXCEPT ![th] = "ret"]
            /\ UNCHANGED sessions
       ELSE /\ sessions' = sessions @@
                 (NextId :> ServerMapCtor(FactoryDefinitions, arg[th], TRUE))
            /\ cur' = [cur EXCEPT ![th] = NextId]
            /\ pc' = [pc EXCEPT ![th] = "open"]
  /\ UNCHANGED <<transportMap_, transportMap_mutex_, arg, returned, closed>>

\* A factory that returns the new session without caching it.
CacheInsert_forget(map, t, s) == map

\* transportMap_[trans] = retTransport, once open() has returned.
CacheInsert(map, t, s) == [x \in DOMAIN map \cup {t} |-> IF x = t THEN s ELSE map[x]]

\* A factory that takes the session out of open() as soon as a mechanism is bound.
OpenReturned_early(s) == sessions[s].state \in {"MECH_BOUND", "COMPLETE"}

\* retTransport->open() has returned normally: the handshake is complete.
OpenReturned(s) == sessions[s].state = "COMPLETE"

Insert(th) ==
  /\ pc[th] = "open"
  /\ OpenReturned(cur[th])
  /\ transportMap_' = CacheInsert(transportMap_, arg[th], cur[th])
  /\ pc' = [pc EXCEPT ![th] = "ret"]
  /\ UNCHANGED <<sessions, transportMap_mutex_, arg, cur, returned, closed>>

\* return retTransport; the lock_guard releases the mutex.
Return(th) ==
  /\ pc[th] = "ret"
  /\ returned' = returned \cup {[trans |-> arg[th], sess |-> cur[th]]}
  /\ transportMap_mutex_' = "free"
  /\ pc' = [pc EXCEPT ![th] = "idle"]
  /\ UNCHANGED <<sessions, transportMap_, arg, cur, closed>>

\* A factory that caches the session whose open() threw.
OnThrow_cached(map, t, s) == [x \in DOMAIN map \cup {t} |-> IF x = t THEN s ELSE map[x]]

\* The exception of open() leaves getTransport at line 110: line 111 is not
\* reached and the cache is what it was.
OnThrow(map, t, s) == map

\* A guard that stays locked when the exception passes through it.
ReleaseOnThrow_held(holder) == holder

\* The destructor of the lock_guard runs while the exception unwinds.
ReleaseOnThrow(holder) == "free"

\* open() threw: the exception leaves getTransport, the lock_guard releases.
Unwind(th) ==
  /\ pc[th] = "open"
  /\ sessions[cur[th]].state = "FAILED"
  /\ transportMap_' = OnThrow(transportMap_, arg[th], cur[th])
  /\ transportMap_mutex_' = ReleaseOnThrow(th)
  /\ pc' = [pc EXCEPT ![th] = "idle"]
  /\ cur' = [cur EXCEPT ![th] = 0]
  /\ UNCHANGED <<sessions, arg, returned, closed>>

\* A caller constructs a server transport itself, with one of the three
\* constructors, and later calls open() on it.
NewSession(t, serverMap) ==
  /\ Budget < MaxSessions
  /\ sessions' = sessions @@ (NextId :> ServerMapCtor(serverMap, t, FALSE))
  /\ UNCHANGED <<transportMap_, transportMap_mutex_, pc, arg, cur, returned, closed>>

Open(s) ==
  /\ s \in Ids
  /\ sessions[s].state = "NEW"
  /\ sessions' = [sessions EXCEPT ![s].state = "INIT", ![s].opens = @ + 1]
  /\ UNCHANGED <<transportMap_, transportMap_mutex_, pc, arg, cur, returned, closed>>

\* open() reaches handleSaslStartMessage and receives the frame f (or finds
\* the transport closed); over and outcome are what the read behind the
\* buffer and the engine's first evaluation produce.
HandleStart(s, f, over, outcome) ==
  /\ s \in Ids
  /\ sessions[s].state = "INIT"
  /\ sessions' = [sessions EXCEPT ![s] =
                    IF @.trans \in closed
                      THEN ReceiveClosed(@)
                      ELSE handleSaslStartMessage(@, f, over, outcome)]
  /\ UNCHANGED <<transportMap_, transportMap_mutex_, pc, arg, cur, returned, closed>>

\* One iteration of the challenge/response loop of open().
Loop(s, f, outcome) ==
  /\ s \in Ids
  /\ sessions[s].state = "MECH_BOUND"
  /\ outcome = "challenge" => sessions[s].rounds < MaxRounds
  /\ sessions' = [sessions EXCEPT ![s] =
                    IF @.sasl_.complete
                      THEN [@ EXCEPT !.state = "COMPLETE"]
                      ELSE IF @.trans \in closed
                             THEN ReceiveClosed(@)
                             ELSE Negotiate(@, f, outcome)]
  /\ UNCHANGED <<transportMap_, transportMap_mutex_, pc, arg, cur, returned, closed>>

\* A holder of the session calls setSaslServer: the owner of a session it
\* constructed itself (outside open()), or a caller getTransport returned it to.
Holds(s) ==
  IF sessions[s].viaFactory
    THEN \E r \in returned : r.sess = s
    ELSE sessions[s].state \in {"NEW", "COMPLETE", "FAILED"}

SetSaslServer(s, e) ==
  /\ s \in Ids
  /\ Holds(s)
  /\ sessions[s].sasl_ # e
  /\ sessions' = [sessions EXCEPT ![s] = setSaslServer(@, e)]
  /\ UNCHANGED <<transportMap_, transportMap_mutex_, pc, arg, cur, returned, closed>>

\* The underlying transport is closed.
Close(t) ==
  /\ t \notin closed
  /\ closed' = closed \cup {t}
  /\ UNCHANGED <<sessions, transportMap_, transportMap_mutex_, pc, arg, cur, returned>>

CtorMaps == {EmptyMap, SingleDefinition, FactoryDefinitions}

Init ==
  /\ sessions = <<>>
  /\ transportMap_ = [t \in {} |-> 0]
  /\ transportMap_mutex_ = "free"
  /\ pc = [th \in Threads |-> "idle"]
  /\ arg = [th \in Threads |-> "tA"]
  /\ cur = [th \in Threads |-> 0]
  /\ returned = {}
  /\ closed = {}

\* The factory under concurrent callers: the handshakes run on plain frames.
Next ==
  \/ \E th \in Threads, t \in Transports : Call(th, t)
  \/ \E th \in Threads : Lock(th)
  \/ \E th \in Threads : Lookup(th)
  \/ \E th \in Threads : Insert(th)
  \/ \E th \in Threads : Return(th)
  \/ \E th \in Threads : Unwind(th)
  \/ \E s \in 1..MaxSessions, f \in PlainFrames, outcome \in StartOutcomes :
       HandleStart(s, f, <<>>, outcome)
  \/ \E s \in 1..MaxSessions, f \in PlainLoopFrames, outcome \in LoopOutcomes :
       Loop(s, f, outcome)
  \/ \E t \in Transports : Close(t)

Spec == Init /\ [][Next]_vars

\* Every caller that can take the mutex eventually gets it, every step of
\* getTransport that can run does, and every handshake ends (the peer sends
\* its next frame, or the connection is found closed).
Fairness ==
  /\ \A th \in Threads : SF_vars(Lock(th))
  /\ \A th \in Threads :
       WF_vars(Lookup(th) \/ Insert(th) \/ Return(th) \/ Unwind(th))
  /\ \A s \in 1..MaxSessions :
       WF_vars(\/ \E f \in PlainFrames, outcome \in StartOutcomes :
                    HandleStart(s, f, <<>>, outcome)
               \/ \E f \in PlainLoopFrames, outcome \in LoopOutcomes :
                    Loop(s, f, outcome))

\* The factory under fair scheduling; a transport that is closed is closed
\* before its first handshake starts.
FairNext ==
  \/ \E th \in Threads, t \in Transports : Call(th, t)
  \/ \E th \in Threads : Lock(th)
  \/ \E th \in Threads : Lookup(th)
  \/ \E th \in Threads : Insert(th)
  \/ \E th \in Threads : Return(th)
  \/ \E th \in Threads : Unwind(th)
  \/ \E s \in 1..MaxSessions, f \in PlainFrames, outcome \in StartOutcomes :
       HandleStart(s, f, <<>>, outcome)
  \/ \E s \in 1..MaxSessions, f \in PlainLoopFrames, outcome \in LoopOutcomes :
       Loop(s, f, outcome)
  \/ \E t \in Transports : Ids = {} /\ Close(t)

FairSpec == Init /\ [][FairNext]_vars /\ Fairness

\* One session, constructed by a caller or by the factory, under every first
\* frame, every read behind the buffer and every engine outcome.
Alone(t) ==
  /\ \A th \in Threads : pc[th] = "idle"
  /\ Ids = {} \/ t \in DOMAIN transportMap_

SessionNext ==
  \/ \E th \in Threads, t \in Transports : Alone(t) /\ Call(th, t)
  \/ \E th \in Threads : Lock(th)
  \/ \E th \in Threads : Lookup(th)
  \/ \E th \in Threads : Insert(th)
  \/ \E th \in Threads : Return(th)
  \/ \E th \in Threads : Unwind(th)
  \/ \E t \in Transports, m \in CtorMaps : Alone(t) /\ Ids = {} /\ NewSession(t, m)
  \/ \E s \in Ids : Open(s)
  \/ \E s \in Ids, f \in Frames, over \in OverRead, outcome \in StartOutcomes :
       HandleStart(s, f, over, outcome)
  \/ \E s \in Ids, f \in LoopFrames, outcome \in LoopOutcomes : Loop(s, f, outcome)
  \/ \E s \in Ids, e \in GivenEngines : SetSaslServer(s, e)
  \/ \E t \in Transports : Close(t)

SessionSpec == Init /\ [][SessionNext]_vars

\* The engines a caller passes to setSaslServer: one of its own, or none.
SetterEngines == GivenEngines \cup {NoEngine}

\* The states in which a caller holds a transport it constructed: new, or
\* after an open() that failed in START handling or completed in the loop.
HeldSessions ==
  LET fresh   == {ServerMapCtor(m, t, FALSE) : m \in CtorMaps, t \in Transports}
      opened  == {[x EXCEPT !.state = "INIT", !.opens = 1] : x \in fresh}
      started == {handleSaslStartMessage(x, f, <<>>, o) :
                    x \in opened, f \in Frames, o \in StartOutcomes}
      ended   == {Negotiate(x, f, o) :
                    x \in {y \in started : y.state = "MECH_BOUND" /\ ~y.sasl_.complete},
                    f \in LoopFrames, o \in LoopOutcomes \ {"challenge"}}
  IN  {x \in fresh \cup started \cup ended : x.state \in {"NEW", "COMPLETE", "FAILED"}}

\* One transport in a held state, once in the server role and once in the
\* client role (isClient_ belongs to the base class, which sets it).
SetterInit ==
  /\ \E x \in HeldSessions :
       sessions = <<x, [x EXCEPT !.isClient_ = TRUE]>>
  /\ transportMap_ = [t \in {} |-> 0]
  /\ transportMap_mutex_ = "free"
  /\ pc = [th \in Threads |-> "idle"]
  /\ arg = [th \in Threads |-> "tA"]
  /\ cur = [th \in Threads |-> 0]
  /\ returned = {}
  /\ closed = {}

SetterNext == \E s \in Ids, e \in SetterEngines : SetSaslServer(s, e)

SetterSpec == SetterInit /\ [][SetterNext]_vars

\* ================================================================= claims
\* Calls that have produced their result: returned, or about to return.
Results ==
  returned \cup {[trans |-> arg[th], sess |-> cur[th]] :
                   th \in {x \in Threads : pc[x] = "ret"}}

\* C1: under any interleaving of getTransport calls, calls for the same
\* transport yield the same session, calls for distinct transports yield
\* distinct sessions, and no transport ever has two live factory sessions or a
\* cache entry that belongs to another transport.
C1_OneSessionPerTransport ==
  /\ \A r1, r2 \in Results : (r1.trans = r2.trans) <=> (r1.sess = r2.sess)
  /\ \A t \in Transports :
       Cardinality({s \in Ids : /\ sessions[s].viaFactory
                                /\ sessions[s].trans = t
                                /\ sessions[s].state # "FAILED"}) <= 1
  /\ \A t \in DOMAIN transportMap_ :
       /\ transportMap_[t] \in Ids
       /\ sessions[transportMap_[t]].trans = t

\* A call is about to return, for its transport, the session an earlier call
\* returned for it, while a call for the other transport has returned another
\* session.
C1_Witness ==
  \E th \in Threads, r \in returned :
    /\ pc[th] = "ret"
    /\ [trans |-> arg[th], sess |-> cur[th]] \in returned
    /\ r.trans # arg[th] /\ r.sess # cur[th]

\* C2: a getTransport call waiting for the lock is never kept out by the
\* handshake of a call for another transport.
C2_NoBlocking ==
  \A th1, th2 \in Threads :
    (pc[th1] = "open" /\ pc[th2] = "lock" /\ arg[th1] # arg[th2]) => CanLock(th2)

\* C3: once getTransport(T) has returned a session, a later getTransport(T)
\* finds it (constructing nothing, changing no session) and returns it, the
\* returned session's handshake record never grows, and no session is opened
\* more than once.
C3_Idempotent ==
  [][ /\ \A th \in Threads :
           (pc[th] = "find" /\ pc'[th] # "find"
              /\ \E r \in returned : r.trans = arg[th])
           => /\ pc'[th] = "ret"
              /\ sessions' = sessions
              /\ \A r \in returned : r.trans = arg[th] => cur'[th] = r.sess
      /\ \A r \in returned : sessions'[r.sess].io = sessions[r.sess].io
      /\ \A s \in DOMAIN sessions' : sessions'[s].opens <= 1 ]_vars

\* A later call for a transport is about to return the session an earlier
\* call returned for it.
C3_Witness ==
  \E th \in Threads, r \in returned :
    pc[th] = "ret" /\ r.trans = arg[th] /\ r.sess = cur[th]

\* C4: the cache holds no entry for a closed transport.
C4_Evicted == \A t \in closed : t \notin DOMAIN transportMap_

\* C5: a session whose first frame is not START has sent exactly one frame,
\* an ERROR frame with the diagnostic and the received status, has failed with
\* the exception of line 79, has made no registry lookup and has instantiated
\* no engine.
C5_WrongFirstStatus ==
  \A s \in Ids :
    LET x == sessions[s] IN
    (Len(x.io) >= 1 /\ x.io[1].status # "START") =>
      /\ Len(x.io) = 2
      /\ x.io[2].dir = "out" /\ x.io[2].status = "ERROR"
      /\ x.io[2].text = "Expecting START status, received "
      /\ x.io[2].tag = x.io[1].status
      /\ x.state = "FAILED" /\ x.err = "UNKNOWN"
      /\ x.lookups = 0
      /\ x.resolved = "none"
      /\ x.sasl_.origin # "start"

\* A factory session received OK as its first frame and failed.
C5_Witness ==
  \E s \in Ids :
    /\ sessions[s].viaFactory
    /\ Len(sessions[s].io) >= 1 /\ sessions[s].io[1].status = "OK"
    /\ sessions[s].state = "FAILED"

\* The mechanism a START payload names: its bytes up to the first NUL.
Named(payload) == CStr(payload)

\* C6: a session whose START frame names a mechanism that is not in its
\* registry has sent exactly one frame, a BAD frame, has failed with BAD_ARGS
\* and has instantiated no engine.
C6_UnregisteredGetsBad ==
  \A s \in Ids :
    LET x == sessions[s] IN
    (/\ Len(x.io) >= 1 /\ x.io[1].status = "START"
     /\ Named(x.io[1].payload) \notin DOMAIN x.serverDefinitionMap_) =>
      /\ Len(x.io) = 2
      /\ x.io[2].dir = "out" /\ x.io[2].status = "BAD"
      /\ x.state = "FAILED" /\ x.err = "BAD_ARGS"
      /\ x.resolved = "none"
      /\ x.sasl_.origin # "start"

\* C7: a factory session holds every definition of the factory, and once its
\* START frame names a registered mechanism m it has resolved m's
\* definition, built its engine from that definition, and m is what is bound
\* when it completes.
C7_RegisteredResolves ==
  \A s \in Ids :
    LET x == sessions[s] IN
    x.viaFactory =>
      /\ x.serverDefinitionMap_ = FactoryDefinitions
      /\ (/\ Len(x.io) >= 1 /\ x.io[1].status = "START"
          /\ Named(x.io[1].payload) \in DOMAIN FactoryDefinitions) =>
           /\ x.resolved = FactoryDefinitions[Named(x.io[1].payload)]
           /\ x.sasl_.origin = "start" => x.sasl_.def = x.resolved

\* C8: a session has an engine only if it has resolved a mechanism name
\* against its registry.
C8_EngineAfterResolution ==
  \A s \in Ids : sessions[s].sasl_ # NoEngine => sessions[s].resolved # "none"

\* C9: a session that failed on a wrong first status, a registry miss or the
\* engine's first evaluation sent an ERROR or BAD frame as the last thing it
\* did.
C9_NotifiedBeforeFailure ==
  \A s \in Ids :
    LET x == sessions[s] IN
    (x.state = "FAILED" /\ x.err \in {"UNKNOWN", "BAD_ARGS", "SaslException"}) =>
      /\ x.io # <<>>
      /\ x.io[Len(x.io)].dir = "out"
      /\ x.io[Len(x.io)].status \in {"ERROR", "BAD"}

\* C10: a session never receives two frames in a row without sending one in
\* between.
C10_RequestThenResponse ==
  \A s \in Ids :
    \A i \in 1..(Len(sessions[s].io) - 1) :
      ~(sessions[s].io[i].dir = "in" /\ sessions[s].io[i + 1].dir = "in")

\* C11: a session that has reached COMPLETE keeps the engine that was built
\* from its resolved mechanism: its engine is the one START handling
\* instantiated, bound to the definition the session resolved.
C11_CompleteIsImmutable ==
  \A s \in Ids :
    sessions[s].state = "COMPLETE" =>
      /\ sessions[s].sasl_.origin = "start"
      /\ sessions[s].sasl_.def = sessions[s].resolved

\* C12: the ERROR or BAD frame START handling sends carries only the fixed
\* diagnostic text and the received status tag (ERROR) or the mechanism name
\* the START payload holds (BAD), so it is the same for any two first frames
\* that agree on status and mechanism name.
C12_DiagnosticsCarryNoSecret ==
  \A s \in Ids :
    LET x == sessions[s] IN
    (Len(x.io) >= 2 /\ x.io[2].dir = "out") =>
      \/ /\ x.io[2].status = "ERROR"
         /\ x.io[2].text = "Expecting START status, received "
         /\ x.io[2].tag = x.io[1].status
         /\ x.io[2].payload = <<>>
      \/ /\ x.io[2].status = "BAD"
         /\ x.io[2].text = "Unsupported mechanism type "
         /\ x.io[2].tag = ""
         /\ x.io[2].payload = Named(x.io[1].payload)

\* The bytes of a START payload that follow the mechanism name and the NUL
\* that ends it (none when the payload is the name alone).
AfterName(payload) ==
  IF Len(Named(payload)) < Len(payload)
    THEN SubSeq(payload, Len(Named(payload)) + 2, Len(payload))
    ELSE <<>>

\* C13: the engine START handling instantiated has been evaluated, and the
\* first bytes it was given are those that follow the mechanism name in the
\* START payload (none when the payload is the name alone), not the name.
C13_EvaluatesAfterName ==
  \A s \in Ids :
    LET x == sessions[s] IN
    x.sasl_.origin = "start" =>
      /\ x.sasl_.evals >= 1
      /\ x.sasl_.first = AfterName(x.io[1].payload)

\* C14: when open() fails inside getTransport(T) the call ends with the
\* session's error, inserts no cache entry for T, leaves the cache and the
\* results as they were; a failed session is never cached or returned, and the
\* session a later miss constructs is a new one that has exchanged no frame.
C14_FailureNotCached ==
  /\ [](\A s \in Ids :
          sessions[s].state = "FAILED" =>
            /\ \A t \in DOMAIN transportMap_ : transportMap_[t] # s
            /\ \A r \in returned : r.sess # s)
  /\ [][\A th \in Threads :
          /\ (pc[th] = "open" /\ pc'[th] = "idle") =>
               /\ sessions[cur[th]].state = "FAILED"
               /\ sessions[cur[th]].err # "none"
               /\ transportMap_' = transportMap_
               /\ arg[th] \notin DOMAIN transportMap_'
               /\ returned' = returned
               /\ sessions' = sessions
          /\ (pc[th] = "find" /\ pc'[th] = "open") =>
               /\ cur'[th] \notin Ids
               /\ sessions'[cur'[th]].trans = arg[th]
               /\ sessions'[cur'[th]].state = "INIT"
               /\ sessions'[cur'[th]].io = <<>>
               /\ sessions'[cur'[th]].sasl_ = NoEngine]_vars

\* A handshake for a transport failed inside getTransport, the call ended, and
\* a later getTransport for the same transport is running a handshake on a
\* second session.
C14_Witness ==
  \E s1, s2 \in Ids, th \in Threads :
    /\ s1 # s2
    /\ sessions[s1].viaFactory /\ sessions[s1].state = "FAILED"
    /\ sessions[s2].trans = sessions[s1].trans
    /\ pc[th] = "open" /\ cur[th] = s2 /\ arg[th] = sessions[s1].trans
    /\ Len(sessions[s2].io) >= 1
    /\ DOMAIN transportMap_ = {}

\* C15: every session in the cache, every session getTransport has returned
\* and every session a caller is about to be handed has completed its
\* handshake; a session still inside open() is known to its creator only.
C15_OnlyCompletedVisible ==
  /\ \A t \in DOMAIN transportMap_ : sessions[transportMap_[t]].state = "COMPLETE"
  /\ \A r \in returned : sessions[r.sess].state = "COMPLETE"
  /\ \A th \in Threads :
       /\ pc[th] = "ret" => sessions[cur[th]].state = "COMPLETE"
       /\ (pc[th] = "open" /\ sessions[cur[th]].state # "COMPLETE") =>
            /\ \A t \in DOMAIN transportMap_ : transportMap_[t] # cur[th]
            /\ \A r \in returned : r.sess # cur[th]
            /\ \A o \in Threads \ {th} : cur[o] # cur[th]

\* One caller was handed a cached session while the other is still inside
\* open() on a session nobody else can see.
C15_Witness ==
  \E th, o \in Threads :
    /\ pc[th] = "open" /\ sessions[cur[th]].state = "MECH_BOUND"
    /\ \E r \in returned : r.sess = transportMap_[r.trans] /\ r.sess # cur[th]
    /\ pc[o] = "lock"

C17_SetterFrame ==
  [][/\ \A s \in Ids :
          sessions'[s] # sessions[s] =>
            IF sessions[s].isClient_
              THEN /\ sessions'[s].raised = "INTERNAL_ERROR"
                   /\ sessions'[s].sasl_ = sessions[s].sasl_
                   /\ sessions'[s] = [sessions[s] EXCEPT !.raised = "INTERNAL_ERROR"]
              ELSE /\ sessions'[s].sasl_ \in SetterEngines
                   /\ sessions'[s].raised = "none"
                   /\ sessions'[s] = [sessions[s] EXCEPT !.sasl_ = sessions'[s].sasl_]
     /\ DOMAIN sessions' = DOMAIN sessions
     /\ UNCHANGED <<transportMap_, transportMap_mutex_, pc, arg, cur, returned, closed>>]_vars

\* The setter was called on both transports after START handling had
\* instantiated an engine: the client-role one threw and still has that
\* engine, the server-role one has the caller's engine and differs in nothing
\* else.
C17_Witness ==
  /\ Ids = {1, 2}
  /\ ~sessions[1].isClient_ /\ sessions[2].isClient_
  /\ sessions[2].raised = "INTERNAL_ERROR"
  /\ sessions[2].sasl_.origin = "start"
  /\ sessions[1].raised = "none"
  /\ sessions[1].sasl_ \in GivenEngines
  /\ sessions[1] = [sessions[2] EXCEPT !.isClient_ = FALSE, !.raised = "none",
                                       !.sasl_ = sessions[1].sasl_]
====
